---------------------------- MODULE Spec2Model ----------------------------
(***************************************************************************)
(* Walk-forward day-ahead forecasting loop of run.py (LMP_Forecasting).    *)
(*                                                                         *)
(* Timestamps are whole hours; hour 0 is the first hour of the test range  *)
(* and the training range lies at negative hours.  A data frame is a       *)
(* sequence of rows [ts, Price] in index order.  The forecast and the      *)
(* real-value frames are sequences of rows of HoursPerDay values, keyed by *)
(* forecast_index.  The model (LEAR) and the data source (read_data) are   *)
(* library code: what they return is an input drawn from small sets.       *)
(***************************************************************************)
EXTENDS Integers, Sequences, FiniteSets

VARIABLES
    args_cw,          \* args.calibration_window
    df_train,         \* what load_data returns: the training frame
    df_test,          \* what load_data returns: the test frame
    forecast_index,   \* forecast.index  (= real_values.index = forecast_dates)
    forecast,         \* the forecast frame, one row of h0..h23 per index entry
    real_values,      \* the real-value frame
    i,                \* position of the for loop in forecast_dates (1-based)
    pc,               \* "start", "loop" or "done": where main is
    error,            \* the exception main's except clause caught, or "none"
    outcome,          \* how main ended for its caller: "running", "returned", "raised"
    reported,         \* handle_error printed and logged the error
    completed,        \* 'Script execution completed successfully.' was logged
    data_available,   \* df handed to the last recalibrate_and_forecast_next_day call
    next_day_date,    \* next_day_date of that call
    call_cw,          \* calibration_window of that call
    n_calls,          \* number of recalibrate_and_forecast_next_day calls so far
    Yp,               \* what the last call returned (<<>> if it raised)
    progress,         \* the progress lines printed and logged, in order
    csv_file          \* content of the file at forecast_file_path (<<>>: no file)

vars == <<args_cw, df_train, df_test, forecast_index, forecast, real_values, i,
          pc, error, outcome, reported, completed, data_available,
          next_day_date, call_cw, n_calls, Yp, progress, csv_file>>

-----------------------------------------------------------------------------
(* Program constants *)

HoursPerDay == 24

\* pd.Timedelta(hours=23): from a day's first hour to its last
LastHourOffset == 23

\* np.NaN: the unknown price of a masked row and the content of an unwritten
\* cell.  Every price and prediction of the model is positive.
NaN == -1

(* Bounds of the model *)

MaxTestDays == 2     \* calendar days the test range spans
TrainDays == 1       \* calendar days the training range spans

PriceLevels == {10, 12}
Swings == {0, 1}
GapStarts == {5, 23}
GapLens == {0, 1, HoursPerDay}
CalibrationWindows == {0, 4 * 364}
BadLengths == {1, HoursPerDay - 1, HoursPerDay + 1}

-----------------------------------------------------------------------------
(* Arithmetic and frame helpers *)

Abs(x) == IF x < 0 THEN -x ELSE x

\* Python's len(range(0, n, 24)): the number of entries of index[::24]
CeilDays(n) == (n + HoursPerDay - 1) \div HoursPerDay

\* A row of the hourly frames
Row(t, p) == [ts |-> t, Price |-> p]

\* The hourly price profile of the generated data: level + swing on odd hours
ProfileValue(level, swing, t) == level + swing * (t % 2)

\* Variant of mask_price whose slice excludes its upper end
mask_price_exclusive(df, lo, hi) ==
    [k \in 1..Len(df) |->
        IF lo <= df[k].ts /\ df[k].ts < hi
        THEN [df[k] EXCEPT !.Price = NaN]
        ELSE df[k]]

\* df.loc[:hi, :] on a frame with a sorted hourly index: label slice,
\* both ends inclusive
loc_upto(df, hi) ==
    LET Keep(r) == r.ts <= hi
    IN  SelectSeq(df, Keep)

\* pd.concat([a, b], axis=0): a new frame, the rows of a then those of b
concat(a, b) == a \o b

\* df.loc[lo:hi, 'Price'] = np.NaN
mask_price(df, lo, hi) ==
    [k \in 1..Len(df) |->
        IF lo <= df[k].ts /\ df[k].ts <= hi
        THEN [df[k] EXCEPT !.Price = NaN]
        ELSE df[k]]

\* df_test.index[::24]: the timestamp of every 24th row, from the first
index_step(df) ==
    [k \in 1..CeilDays(Len(df)) |-> df[(k - 1) * HoursPerDay + 1].ts]

\* df_test['Price'].values.reshape(-1, 24), defined when the length is a
\* multiple of 24 (numpy raises ValueError otherwise)
reshape(df) ==
    [k \in 1..(Len(df) \div HoursPerDay) |->
        [h \in 1..HoursPerDay |-> df[(k - 1) * HoursPerDay + h].Price]]

\* pd.DataFrame(index=..., columns=[h0..h23]): every cell NaN
EmptyRow == [h \in 1..HoursPerDay |-> NaN]
EmptyFrame(n) == [k \in 1..n |-> EmptyRow]

\* Whether numpy can assign a 1-d array of n values to a row of 24 cells:
\* equal length, or length 1 (broadcast)
can_assign(n) == n = HoursPerDay \/ n = 1

\* The 24 values a row receives from y
broadcast(y) ==
    IF Len(y) = 1 THEN [h \in 1..HoursPerDay |-> y[1]] ELSE y

\* Variant of set_row that assigns to the slice .loc[:date, :]
set_rows_upto(frame, index, date, y) ==
    [k \in 1..Len(frame) |->
        IF index[k] <= date THEN broadcast(y) ELSE frame[k]]

\* forecast.loc[date, :] = y
set_row(frame, index, date, y) ==
    [k \in 1..Len(frame) |->
        IF index[k] = date THEN broadcast(y) ELSE frame[k]]

\* Variant of rows_upto that leaves out the row of date itself
RECURSIVE rows_before(_, _, _)
rows_before(frame, index, date) ==
    IF Len(frame) = 0 THEN <<>>
    ELSE IF Head(index) < date
         THEN <<Head(frame)>> \o rows_before(Tail(frame), Tail(index), date)
         ELSE rows_before(Tail(frame), Tail(index), date)

\* frame.loc[:date].values: the rows whose label is <= date, in order
RECURSIVE rows_upto(_, _, _)
rows_upto(frame, index, date) ==
    IF Len(frame) = 0 THEN <<>>
    ELSE IF Head(index) <= date
         THEN <<Head(frame)>> \o rows_upto(Tail(frame), Tail(index), date)
         ELSE rows_upto(Tail(frame), Tail(index), date)

\* The cells of a 2-d array in row-major order
RECURSIVE flatten(_)
flatten(rows) ==
    IF Len(rows) = 0 THEN <<>> ELSE Head(rows) \o flatten(Tail(rows))

RECURSIVE sum_abs_diff(_, _)
sum_abs_diff(a, b) ==
    IF Len(a) = 0 THEN 0
    ELSE Abs(Head(a) - Head(b)) + sum_abs_diff(Tail(a), Tail(b))

\* np.mean(MAE(p, r)): the mean of |p - r| over all cells, kept as the
\* exact fraction num / den
MAE(p, r) ==
    [num |-> sum_abs_diff(flatten(p), flatten(r)),
     den |-> Len(flatten(p))]

\* Variant of forecast_dates that visits the dates latest first
forecast_dates_reversed(index) ==
    [k \in 1..Len(index) |-> index[Len(index) + 1 - k]]

\* forecast_dates = forecast.index
forecast_dates(index) == index

-----------------------------------------------------------------------------
(* What the library calls may return *)

\* The hours missing from the test range: len consecutive hours from start
Gap(start, len) == start..(start + len - 1)

\* read_data: the training frame, the TrainDays days before hour 0
TrainSeries(swing) ==
    [k \in 1..(TrainDays * HoursPerDay) |->
        Row(k - 1 - TrainDays * HoursPerDay,
            ProfileValue(10, swing, k - 1))]

\* read_data: the test frame, n calendar days from hour 0 with the price
\* level base[d] on day d, less the hours of gap
TestSeries(n, base, swing, gap) ==
    LET full == [k \in 1..(n * HoursPerDay) |->
                    Row(k - 1,
                        ProfileValue(base[(k - 1) \div HoursPerDay + 1],
                                     swing, k - 1))]
        Present(r) == r.ts \notin gap
    IN  SelectSeq(full, Present)

\* recalibrate_and_forecast_next_day: the arrays it may return
Prediction(level, swing, n) ==
    [h \in 1..n |-> ProfileValue(level, swing, h - 1)]

ModelOutputs ==
    {Prediction(l, s, HoursPerDay) : l \in PriceLevels, s \in Swings}
    \cup {Prediction(l, 0, n) : l \in PriceLevels, n \in BadLengths}

-----------------------------------------------------------------------------
(* The program *)

Init ==
    /\ \E n \in 1..MaxTestDays, swing \in Swings,
          gs \in GapStarts, gl \in GapLens :
          \E base \in [1..n -> PriceLevels] :
             /\ df_train = TrainSeries(swing)
             /\ df_test = TestSeries(n, base, swing, Gap(gs, gl))
    /\ args_cw \in CalibrationWindows
    /\ forecast_index = <<>>
    /\ forecast = <<>>
    /\ real_values = <<>>
    /\ i = 1
    /\ pc = "start"
    /\ error = "none"
    /\ outcome = "running"
    /\ reported = FALSE
    /\ completed = FALSE
    /\ data_available = <<>>
    /\ next_day_date = 0
    /\ call_cw = 0
    /\ n_calls = 0
    /\ Yp = <<>>
    /\ progress = <<>>
    /\ csv_file = <<>>

\* Variant of handle_error that re-raises after logging
handle_error_reraise(e) ==
    /\ error' = e
    /\ reported' = TRUE
    /\ pc' = "done"
    /\ outcome' = "raised"

\* except Exception as e: handle_error(e) -- the error is printed and
\* logged with its traceback, and main returns normally
handle_error(e) ==
    /\ error' = e
    /\ reported' = TRUE
    /\ pc' = "done"
    /\ outcome' = "returned"

\* Variant of inputs_after_mask where the mask hits the input frame itself
inputs_masked_in_place(df, date) ==
    mask_price(df, date, date + LastHourOffset)

\* The input frames after a window was built from them and masked: the
\* mask is applied to the frame pd.concat returns, a copy
inputs_after_mask(df, date) == df

\* main up to the loop, the test frame a whole number of 24-row blocks
main_setup ==
    /\ pc = "start"
    /\ Len(df_test) % HoursPerDay = 0
    /\ forecast_index' = index_step(df_test)
    /\ forecast' = EmptyFrame(Len(index_step(df_test)))
    /\ real_values' = reshape(df_test)
    /\ pc' = "loop"
    /\ UNCHANGED <<args_cw, df_train, df_test, i, error, outcome, reported,
                   completed, data_available, next_day_date, call_cw,
                   n_calls, Yp, progress, csv_file>>

\* main up to the loop, reshape(-1, 24) raising ValueError
main_setup_reshape_error ==
    /\ pc = "start"
    /\ Len(df_test) % HoursPerDay # 0
    /\ forecast_index' = index_step(df_test)
    /\ forecast' = EmptyFrame(Len(index_step(df_test)))
    /\ handle_error("ValueError")
    /\ UNCHANGED <<args_cw, df_train, df_test, real_values, i, completed,
                   data_available, next_day_date, call_cw, n_calls, Yp,
                   progress, csv_file>>

\* The window process_date builds for date and hands to the model
window(train, test, date) ==
    mask_price(concat(train, loc_upto(test, date + LastHourOffset)),
               date, date + LastHourOffset)

\* The call model.recalibrate_and_forecast_next_day(df, next_day_date,
\* calibration_window) of process_date
call_model(date) ==
    /\ data_available' = window(df_train, df_test, date)
    /\ next_day_date' = date
    /\ call_cw' = args_cw
    /\ n_calls' = n_calls + 1
    /\ df_train' = inputs_after_mask(df_train, date)
    /\ df_test' = inputs_after_mask(df_test, date)

\* One iteration of the loop: the model returns y, the row is written, the
\* running MAE is computed over the rows up to date and reported
process_date(y) ==
    /\ pc = "loop"
    /\ i <= Len(forecast_index)
    /\ can_assign(Len(y))
    /\ LET date == forecast_dates(forecast_index)[i]
           written == set_row(forecast, forecast_index, date, y)
           mae == MAE(rows_upto(written, forecast_index, date),
                      rows_upto(real_values, forecast_index, date))
       IN  /\ call_model(date)
           /\ Yp' = y
           /\ forecast' = written
           /\ progress' = Append(progress, [date |-> date, mae |-> mae])
    /\ i' = i + 1
    /\ UNCHANGED <<args_cw, forecast_index, real_values, pc, error, outcome,
                   reported, completed, csv_file>>

\* One iteration of the loop: the model returns y, which does not fit a
\* row; the assignment raises ValueError
process_date_shape_error(y) ==
    /\ pc = "loop"
    /\ i <= Len(forecast_index)
    /\ ~can_assign(Len(y))
    /\ call_model(forecast_dates(forecast_index)[i])
    /\ Yp' = y
    /\ handle_error("ValueError")
    /\ UNCHANGED <<args_cw, forecast_index, forecast, real_values, i,
                   completed, progress, csv_file>>

\* One iteration of the loop: the model raises
process_date_model_error ==
    /\ pc = "loop"
    /\ i <= Len(forecast_index)
    /\ call_model(forecast_dates(forecast_index)[i])
    /\ Yp' = <<>>
    /\ handle_error("ModelError")
    /\ UNCHANGED <<args_cw, forecast_index, forecast, real_values, i,
                   completed, progress, csv_file>>

\* The loop is exhausted: success is logged and main returns.  The path
\* create_forecast_file_path computed is not written to.
main_finish ==
    /\ pc = "loop"
    /\ i > Len(forecast_index)
    /\ completed' = TRUE
    /\ pc' = "done"
    /\ outcome' = "returned"
    /\ UNCHANGED <<args_cw, df_train, df_test, forecast_index, forecast,
                   real_values, i, error, reported, data_available,
                   next_day_date, call_cw, n_calls, Yp, progress, csv_file>>

Next ==
    \/ main_setup
    \/ main_setup_reshape_error
    \/ \E y \in ModelOutputs : process_date(y)
    \/ \E y \in ModelOutputs : process_date_shape_error(y)
    \/ process_date_model_error
    \/ main_finish

Spec == Init /\ [][Next]_vars

-----------------------------------------------------------------------------
(* Properties *)

\* The forecast row at position k has been written
Written(k) == forecast[k] # EmptyRow

\* The positions of the forecast frame
Positions == 1..Len(forecast)

\* The position of the row whose label is date
PositionsOf(date) == {k \in Positions : forecast_index[k] = date}

\* The hours of the day that starts at date
HoursOf(date) == date..(date + LastHourOffset)

\* The test frame holds every hour from its first to its last
GapFree == \A k \in 1..Len(df_test) : df_test[k].ts = k - 1

\* Some calendar day of the test frame has 23 rows
HasShortDay ==
    \E d \in {df_test[k].ts \div HoursPerDay : k \in 1..Len(df_test)} :
        Cardinality({k \in 1..Len(df_test) :
                        df_test[k].ts \div HoursPerDay = d}) = HoursPerDay - 1

\* C1. Causal validity: the window handed to the model for day D holds no
\* known price at or after D's first hour: it has no row after D's last
\* hour, every row of D is masked, and on a gap-free test range these are
\* exactly 24 rows.
CausalValidity ==
    n_calls > 0 =>
        /\ \A k \in 1..Len(data_available) :
              /\ data_available[k].ts <= next_day_date + LastHourOffset
              /\ data_available[k].ts >= next_day_date
                    => data_available[k].Price = NaN
        /\ GapFree =>
              Cardinality({k \in 1..Len(data_available) :
                              /\ data_available[k].ts \in HoursOf(next_day_date)
                              /\ data_available[k].Price = NaN}) = HoursPerDay

\* C1 witness: the model was called for the second day of a gap-free range;
\* its window holds that day's 24 masked rows
CausalValidityWitness ==
    /\ n_calls = 2
    /\ GapFree
    /\ next_day_date = HoursPerDay
    /\ \E k \in 1..Len(data_available) :
          /\ data_available[k].ts = next_day_date + LastHourOffset
          /\ data_available[k].Price = NaN

\* C2. Monotonic coverage: in every state, the written rows of the forecast
\* frame are a gap-free prefix of the test days in ascending order.
MonotonicCoverage ==
    /\ \A k \in Positions : Written(k) => \A j \in 1..(k - 1) : Written(j)
    /\ \A k \in Positions : \A j \in 1..(k - 1) :
          forecast_index[j] < forecast_index[k]

\* C2 witness: a run cut short by a failure on the second day, the first
\* row written and the second not
MonotonicCoverageWitness ==
    /\ pc = "done"
    /\ error # "none"
    /\ Len(forecast) = 2
    /\ Written(1)
    /\ ~Written(2)

\* C3. Write-once rows: no step changes a row that has been written.
WriteOnce ==
    [][\A k \in Positions :
          Written(k) => k <= Len(forecast') /\ forecast'[k] = forecast[k]]_vars

\* C3 witness: two rows written with different values, the first one before
\* the second day was processed
WriteOnceWitness ==
    /\ Len(forecast) >= 2
    /\ Written(1)
    /\ Written(2)
    /\ forecast[1] # forecast[2]
    /\ Len(progress) = 2

\* C4 as stated. Shape invariant: when the model returned a number of values
\* other than 24 for day D, the run has failed and the row of D is
\* unwritten.
ShapeInvariant ==
    (n_calls > 0 /\ error # "ModelError" /\ Len(Yp) # HoursPerDay) =>
        /\ error # "none"
        /\ \A k \in PositionsOf(next_day_date) : ~Written(k)

\* C5 as stated. With calibration_window = 0 the model is never called.
ZeroWindowNeverCallsModel ==
    args_cw = 0 => n_calls = 0

\* C6 as stated. When some day of the test frame has 23 rows, no test day
\* is processed and no forecast row is written.
MissingHourAbortsBeforeLoop ==
    HasShortDay =>
        /\ n_calls = 0
        /\ i = 1
        /\ \A k \in Positions : ~Written(k)

\* C7 as stated. A run that processed every test day without failure has
\* written the final forecast frame to the file when it ends.
FinalMatrixPersisted ==
    (pc = "done" /\ completed) => csv_file # <<>> /\ csv_file = forecast

PrefixAbsError[k \in Nat] ==
    IF k = 0 THEN 0
    ELSE PrefixAbsError[k - 1]
         + LET cell[h \in 0..HoursPerDay] ==
                   IF h = 0 THEN 0
                   ELSE cell[h - 1] + Abs(forecast[k][h] - real_values[k][h])
           IN  cell[HoursPerDay]

\* Every cell of rows 1..k of frame is v
PrefixIs(frame, k, v) ==
    \A j \in 1..k : \A h \in 1..HoursPerDay : frame[j][h] = v

\* C9. The MAE reported after the k-th test day is the mean of
\* |forecast - real| over the cells of rows 1..k and no others; actuals of
\* 10 against predictions of 12 give 2, predictions equal to the actuals
\* give 0.
RunningMAE ==
    \A k \in 1..Len(progress) :
        /\ progress[k].date = forecast_index[k]
        /\ progress[k].mae.den = k * HoursPerDay
        /\ progress[k].mae.num = PrefixAbsError[k]
        /\ (PrefixIs(real_values, k, 10) /\ PrefixIs(forecast, k, 12))
              => progress[k].mae.num = 2 * progress[k].mae.den
        /\ (\A j \in 1..k : forecast[j] = real_values[j])
              => progress[k].mae.num = 0

\* C9 witness: two days reported, the first with an error of 2 per cell,
\* the second predicted exactly, the third row (if any) unwritten
RunningMAEWitness ==
    /\ Len(progress) = 2
    /\ PrefixIs(real_values, 1, 10)
    /\ PrefixIs(forecast, 1, 12)
    /\ forecast[2] = real_values[2]
    /\ progress[1].mae = [num |-> 2 * HoursPerDay, den |-> HoursPerDay]
    /\ progress[2].mae = [num |-> 2 * HoursPerDay, den |-> 2 * HoursPerDay]

\* The real-value frame is the reshaped test prices, and every row of the
\* last window before its target day is the row the inputs hold at that
\* place, true price included
WindowShowsTruePrices ==
    n_calls > 0 =>
        LET inputs == df_train \o df_test
        IN  /\ real_values = reshape(df_test)
            /\ Len(data_available) <= Len(inputs)
            /\ \A k \in 1..Len(data_available) :
                  data_available[k].ts < next_day_date
                      => data_available[k] = inputs[k]

\* C10. Processing a day leaves the training frame, the test frame and the
\* real-value frame as they were: after every step the window's rows before
\* the target day are rows of the inputs with their true prices, and the
\* real-value frame stays the reshaped test prices.
InputsUntouched ==
    [][/\ df_train' = df_train
       /\ df_test' = df_test
       /\ pc = "loop" => real_values' = real_values
       /\ WindowShowsTruePrices']_vars

\* C10 witness: the window of the second day shows a known price of the
\* first test day, which the first day's window had masked
InputsUntouchedWitness ==
    /\ n_calls = 2
    /\ next_day_date > 0
    /\ \E k \in 1..Len(data_available) :
          /\ data_available[k].ts = 0
          /\ data_available[k].Price = df_test[1].Price
          /\ data_available[k].Price # NaN

=============================================================================
